---- MODULE Spec2Model ----
(***************************************************************************)
(* Model of ctools/torch_utils/network/nn_module.py: the helper functions  *)
(* weight_init_, sequential_pack, one_hot and binary_encode and the module *)
(* ChannelShuffle.  A caller sits at "idle", calls one of the helpers with *)
(* arguments drawn from bounded sets, and then holds the call's arguments  *)
(* (args) and its outcome (ret) until it returns to "idle".                *)
(*                                                                         *)
(* Tensors are records [shape, stride, data]: data is the storage, a       *)
(* sequence, and element idx (0-based multi-index) lives at storage        *)
(* position 1 + SUM idx[i] * stride[i], as in the tensor framework.        *)
(***************************************************************************)
EXTENDS Integers, Sequences, FiniteSets, TLC

VARIABLES pc, args, ret, group_num

vars == <<pc, args, ret, group_num>>

(* ----------------------------- bounds -------------------------------- *)

\* one_hot: most elements of val, most states num
MaxElems == 4
MaxNum == 3
\* ChannelShuffle: most channels, largest batch/height/width, most groups
MaxChannels == 6
MaxSide == 2
MaxGroup == 3
\* the fill patterns of the input data of ChannelShuffle.forward
MaxFill == 2
\* binary_encode: longest y, largest max_val
MaxLen == 2
MaxVal == 16
\* weight_init_: initializers already applied to the weight, negative slopes
MaxPrior == 1
MaxSlope == 1
\* sequential_pack: most layers, most output channels
MaxLayers == 2
MaxOut == 2

(* ----------------------- the tensor framework ------------------------ *)

RECURSIVE Prod(_)
Prod(s) == IF s = <<>> THEN 1 ELSE Head(s) * Prod(Tail(s))

\* the strides of a contiguous (row-major) tensor of the given shape
ContigStride(shape) ==
    [i \in 1..Len(shape) |-> Prod(SubSeq(shape, i + 1, Len(shape)))]

RECURSIVE Offset(_, _)
Offset(idx, stride) ==
    IF idx = <<>> THEN 0
    ELSE Head(idx) * Head(stride) + Offset(Tail(idx), Tail(stride))

\* the multi-index of the k-th element (0-based) in row-major order
Unravel(k, shape) ==
    [i \in 1..Len(shape) |-> (k \div ContigStride(shape)[i]) % shape[i]]

\* all multi-indices of a shape
Indices(shape) == {Unravel(k, shape) : k \in 0..(Prod(shape) - 1)}

At(t, idx) == t.data[1 + Offset(idx, t.stride)]

Tensor(shape, data) ==
    [shape |-> shape, stride |-> ContigStride(shape), data |-> data]

\* x.view(shape) of a contiguous x: the same storage, read with new strides
view(t, shape) ==
    [shape |-> shape, stride |-> ContigStride(shape), data |-> t.data]

\* x.permute(dims): dimension i of the result is dimension dims[i] of x
permute(t, dims) ==
    [shape  |-> [i \in 1..Len(dims) |-> t.shape[dims[i] + 1]],
     stride |-> [i \in 1..Len(dims) |-> t.stride[dims[i] + 1]],
     data   |-> t.data]

\* x.contiguous(): a fresh storage holding the elements in row-major order
contiguous(t) ==
    Tensor(t.shape, [k \in 1..Prod(t.shape) |-> At(t, Unravel(k - 1, t.shape))])

None == [none |-> TRUE]

(* ------------------------------ one_hot ------------------------------ *)

\* torch.nn.functional.one_hot(val, num): zeros of shape val.shape + (num,)
\* with a 1 scattered at index val[...] of the last dimension
F_one_hot(val, num) ==
    Tensor(val.shape \o <<num>>,
           [k \in 1..(Prod(val.shape) * num) |->
               IF val.data[((k - 1) \div num) + 1] = (k - 1) % num THEN 1 ELSE 0])

OneHotMutantNumFirst(val, num, num_first) ==
    Tensor(<<num>> \o val.shape,
           [k \in 1..(Prod(val.shape) * num) |->
               IF val.data[((k - 1) % Prod(val.shape)) + 1] = (k - 1) \div Prod(val.shape)
               THEN 1 ELSE 0])

\* line 339: num_first is not used; .float() keeps the values 0 and 1
one_hot(val, num, num_first) == F_one_hot(val, num)

\* the Long tensors of at most MaxElems elements in [0, num-1], 2-D
Shapes2 == {<<a, b>> : a \in 1..MaxElems, b \in 1..MaxElems}

LongTensors(num) ==
    UNION {{Tensor(s, d) : d \in [1..Prod(s) -> 0..(num - 1)]} :
              s \in {s \in Shapes2 : Prod(s) <= MaxElems}}

CallOneHot ==
    /\ pc = "idle"
    /\ \E num \in 1..MaxNum, num_first \in BOOLEAN :
         \E val \in LongTensors(num) :
            /\ args' = [val |-> val, num |-> num, num_first |-> num_first]
            /\ ret' = [raised |-> "None", value |-> one_hot(val, num, num_first)]
    /\ pc' = "one_hot"
    /\ UNCHANGED group_num

(* --------------------------- ChannelShuffle -------------------------- *)

\* ChannelShuffle.__init__
ChannelShuffleInit ==
    /\ pc = "idle"
    /\ \E g \in 1..MaxGroup : group_num' = g
    /\ pc' = "constructed"
    /\ UNCHANGED <<args, ret>>

ShuffleMutantPermute(x, g) ==
    LET b == x.shape[1]
        c == x.shape[2]
        h == x.shape[3]
        w == x.shape[4]
    IN  view(contiguous(permute(view(x, <<b, c \div g, g, h, w>>), <<0, 2, 1, 3, 4>>)),
             <<b, c, h, w>>)

\* line 308: x.view(b, g, c // g, h, w).permute(0, 2, 1, 3, 4).contiguous().view(b, c, h, w)
Shuffle(x, g) ==
    LET b == x.shape[1]
        c == x.shape[2]
        h == x.shape[3]
        w == x.shape[4]
    IN  view(contiguous(permute(view(x, <<b, g, c \div g, h, w>>), <<0, 2, 1, 3, 4>>)),
             <<b, c, h, w>>)

AssertMutantAlways(c, g) == TRUE

\* line 307: assert (c % g == 0)
AssertDivisible(c, g) == c % g = 0

\* ChannelShuffle.forward
forward(x, g) ==
    IF AssertDivisible(x.shape[2], g)
    THEN [raised |-> "None", value |-> Shuffle(x, g)]
    ELSE [raised |-> "AssertionError"]

\* input data: fill 0 numbers the elements 0, 1, 2, ...; fill f > 0 repeats
\* 0..f
Fill(f, n) == [k \in 1..n |-> IF f = 0 THEN k - 1 ELSE (k - 1) % (f + 1)]

Inputs4 ==
    {Tensor(s, Fill(f, Prod(s))) :
        s \in {<<b, c, h, w>> : b \in 1..MaxSide, c \in 1..MaxChannels,
                                h \in 1..MaxSide, w \in 1..MaxSide},
        f \in 0..MaxFill}

CallForward ==
    /\ pc = "constructed"
    /\ \E x \in Inputs4 :
         /\ args' = [x |-> x]
         /\ ret' = forward(x, group_num)
    /\ pc' = "forward"
    /\ UNCHANGED group_num

(* --------------------------- binary_encode --------------------------- *)

\* 1 << n
RECURSIVE Shl1(_)
Shl1(n) == IF n = 0 THEN 1 ELSE 2 * Shl1(n - 1)

\* int(math.log(max_val, 2)) for an integer max_val > 0: the quotient of the
\* two double logarithms, truncated (it is the exact integer logarithm for
\* every max_val below 2^48 - 1)
RECURSIVE IntLog2(_)
IntLog2(m) == IF m < 2 THEN 0 ELSE 1 + IntLog2(m \div 2)

\* y.clamp(lo, hi), elementwise
clamp(y, lo, hi) ==
    [k \in DOMAIN y |-> IF y[k] < lo THEN lo ELSE IF y[k] > hi THEN hi ELSE y[k]]

EncodeLoopMutantLsbFirst(x, L, i, binary) ==
    LET RECURSIVE Go(_, _, _)
        Go(xx, ii, bb) ==
            IF ii = L THEN bb
            ELSE LET num == Shl1(ii)
                     bit == [k \in DOMAIN xx |-> IF xx[k] >= num THEN 1 ELSE 0]
                 IN  Go([k \in DOMAIN xx |-> xx[k] - bit[k] * num], ii + 1, Append(bb, bit))
    IN  Go(x, i, binary)

\* lines 433-437: the loop from iteration i on, with x and binary as they
\* stand; x -= bit * num updates x in place
RECURSIVE EncodeLoop(_, _, _, _)
EncodeLoop(x, L, i, binary) ==
    IF i = L THEN binary
    ELSE LET num == Shl1(L - i - 1)
             bit == [k \in DOMAIN x |-> IF x[k] >= num THEN 1 ELSE 0]
         IN  EncodeLoop([k \in DOMAIN x |-> x[k] - bit[k] * num], L, i + 1,
                        Append(binary, bit))

\* torch.stack(binary, dim=1) of L tensors of shape (B,): shape (B, L)
stack_dim1(binary, B) ==
    LET L == Len(binary)
    IN  Tensor(<<B, L>>,
               [k \in 1..(B * L) |-> binary[((k - 1) % L) + 1][((k - 1) \div L) + 1]])

binary_encode(y, max_val) ==
    IF ~(max_val > 0) THEN [raised |-> "AssertionError"]
    ELSE LET x == clamp(y.data, 0, max_val)
             B == y.shape[1]
             L == IntLog2(max_val) + 1
         IN  [raised |-> "None", value |-> stack_dim1(EncodeLoop(x, L, 0, <<>>), B)]

CallBinaryEncode ==
    /\ pc = "idle"
    /\ \E max_val \in 0..MaxVal, B \in 1..MaxLen :
         \E d \in [1..B -> (-1)..(max_val + 1)] :
            /\ args' = [y |-> Tensor(<<B>>, d), max_val |-> max_val]
            /\ ret' = binary_encode(Tensor(<<B>>, d), max_val)
    /\ pc' = "binary_encode"
    /\ UNCHANGED group_num

(* ---------------------------- weight_init_ --------------------------- *)

\* a weight is the sequence of the initializers applied to it so far, each
\* [fn |-> name], with the argument a |-> slope for kaiming_normal_
xavier_init(weight, activation) ==
    [raised |-> "None",
     weight |-> Append(weight, [fn |-> "xavier_normal_"])]

KaimingMutantNoAssert(weight, activation) ==
    IF "negative_slope" \in DOMAIN activation
    THEN [raised |-> "None",
          weight |-> Append(weight, [fn |-> "kaiming_normal_",
                                     a |-> activation.negative_slope])]
    ELSE [raised |-> "None",
          weight |-> Append(weight, [fn |-> "kaiming_normal_", a |-> 0])]

kaiming_init(weight, activation) ==
    IF activation.kind = "None"
    THEN [raised |-> "AssertionError", weight |-> weight]
    ELSE IF "negative_slope" \in DOMAIN activation
    THEN [raised |-> "None",
          weight |-> Append(weight, [fn |-> "kaiming_normal_",
                                     a |-> activation.negative_slope])]
    ELSE [raised |-> "None",
          weight |-> Append(weight, [fn |-> "kaiming_normal_", a |-> 0])]

orthogonal_init(weight, activation) ==
    [raised |-> "None",
     weight |-> Append(weight, [fn |-> "orthogonal_"])]

\* the keys of init_type_dict
init_type_dict == {"xavier", "kaiming", "orthogonal"}

weight_init_(weight, init_type, activation) ==
    IF init_type \in init_type_dict
    THEN CASE init_type = "xavier" -> xavier_init(weight, activation)
           [] init_type = "kaiming" -> kaiming_init(weight, activation)
           [] init_type = "orthogonal" -> orthogonal_init(weight, activation)
    ELSE [raised |-> "KeyError", weight |-> weight]

\* the init_type strings a caller passes: the three keys and two others
InitTypes == init_type_dict \cup {"uniform", "Xavier"}

\* None, an activation module without negative_slope, and LeakyReLU
Activations ==
    {[kind |-> "None"], [kind |-> "ReLU"]}
        \cup {[kind |-> "LeakyReLU", negative_slope |-> s] : s \in 1..MaxSlope}

Initializers ==
    {[fn |-> "xavier_normal_"], [fn |-> "orthogonal_"]}
        \cup {[fn |-> "kaiming_normal_", a |-> s] : s \in 0..MaxSlope}

Weights == UNION {[1..n -> Initializers] : n \in 0..MaxPrior}

CallWeightInit ==
    /\ pc = "idle"
    /\ \E weight \in Weights, init_type \in InitTypes, activation \in Activations :
         /\ args' = [weight |-> weight, init_type |-> init_type,
                     activation |-> activation]
         /\ ret' = weight_init_(weight, init_type, activation)
    /\ pc' = "weight_init_"
    /\ UNCHANGED group_num

(* --------------------------- sequential_pack ------------------------- *)

NoAttrs == [n \in {} |-> 0]

PackLoopMutantNoBreak(layers, attrs) ==
    LET RECURSIVE Go(_, _)
        Go(ls, at) ==
            IF ls = <<>> THEN at
            ELSE IF Head(ls).type \in {"Conv2d", "ConvTranspose2d", "Conv1d"}
            THEN Go(Tail(ls), [n \in {"out_channels"} |-> Head(ls).out_channels])
            ELSE Go(Tail(ls), at)
    IN  Go(layers, attrs)

\* lines 65-71: the loop over the layers not yet visited; attrs are the
\* attributes set on seq
RECURSIVE PackLoop(_, _)
PackLoop(layers, attrs) ==
    IF layers = <<>> THEN attrs
    ELSE LET item == Head(layers)
         IN  IF item.type = "Conv2d" \/ item.type = "ConvTranspose2d"
             THEN [n \in {"out_channels"} |-> item.out_channels]
             ELSE IF item.type = "Conv1d"
             THEN [n \in {"out_channels"} |-> item.out_channels]
             ELSE PackLoop(Tail(layers), attrs)

sequential_pack(layers) ==
    IF layers.kind # "list" THEN [raised |-> "AssertionError"]
    ELSE [raised |-> "None",
          value |-> [modules |-> layers.items,
                     attrs |-> PackLoop(layers.items, NoAttrs)]]

ConvTypes == {"Conv1d", "Conv2d", "ConvTranspose2d"}

Layers ==
    {[type |-> t, out_channels |-> n] : t \in ConvTypes, n \in 1..MaxOut}
        \cup {[type |-> "Linear"], [type |-> "ReLU"]}

CallSequentialPack ==
    /\ pc = "idle"
    /\ \E kind \in {"list", "tuple"}, n \in 0..MaxLayers :
         \E items \in [1..n -> Layers] :
            /\ args' = [layers |-> [kind |-> kind, items |-> items]]
            /\ ret' = sequential_pack([kind |-> kind, items |-> items])
    /\ pc' = "sequential_pack"
    /\ UNCHANGED group_num

(* ------------------------------ caller ------------------------------- *)

Return ==
    /\ pc \in {"one_hot", "forward", "binary_encode", "weight_init_", "sequential_pack"}
    /\ pc' = "idle"
    /\ args' = None
    /\ ret' = None
    /\ group_num' = 0

Init ==
    /\ pc = "idle"
    /\ args = None
    /\ ret = None
    /\ group_num = 0

Next ==
    \/ CallOneHot
    \/ ChannelShuffleInit
    \/ CallForward
    \/ CallBinaryEncode
    \/ CallWeightInit
    \/ CallSequentialPack
    \/ Return

Spec == Init /\ [][Next]_vars

(* ------------------------------ claims ------------------------------- *)

\* C1: for val with elements in [0, num-1], one_hot(val, num) has val's shape
\* with one more, last dimension of size num, and at every element position
\* exactly one entry is 1, the one at the index equal to the element's value,
\* and all other entries are 0.
C1_OneHotLast ==
    (pc = "one_hot" /\ ~args.num_first) =>
        /\ ret.raised = "None"
        /\ ret.value.shape = args.val.shape \o <<args.num>>
        /\ \A idx \in Indices(args.val.shape) :
              /\ Cardinality({k \in 0..(args.num - 1) :
                                 At(ret.value, idx \o <<k>>) = 1}) = 1
              /\ \A k \in 0..(args.num - 1) :
                    At(ret.value, idx \o <<k>>) =
                        IF k = At(args.val, idx) THEN 1 ELSE 0

\* the docstring's first example: one_hot(2*torch.ones([2,2]).long(), 3)
C1_Witness ==
    /\ pc = "one_hot"
    /\ ~args.num_first
    /\ args.num = 3
    /\ args.val.shape = <<2, 2>>
    /\ args.val.data = <<2, 2, 2, 2>>
    /\ ret.value.data = <<0, 0, 1, 0, 0, 1, 0, 0, 1, 0, 0, 1>>

\* C2: with num_first=True the one-hot dimension is the first one: for val of
\* shape (a, b) the result has shape (num, a, b) and result[k, i, j] = 1
\* exactly when val[i, j] = k.
C2_NumFirst ==
    (pc = "one_hot" /\ args.num_first) =>
        /\ ret.raised = "None"
        /\ ret.value.shape = <<args.num>> \o args.val.shape
        /\ \A idx \in Indices(args.val.shape) :
              \A k \in 0..(args.num - 1) :
                 (At(ret.value, <<k>> \o idx) = 1) <=> (At(args.val, idx) = k)

\* floor(log2(m)) for m > 0, by its defining inequality
FloorLog2(m) == CHOOSE e \in 0..m : Shl1(e) <= m /\ m < Shl1(e + 1)

RECURSIVE WeightedSum(_, _)
\* the value of the bit sequence row read most significant bit first
WeightedSum(row, acc) ==
    IF row = <<>> THEN acc ELSE WeightedSum(Tail(row), 2 * acc + Head(row))

Clamped(v, lo, hi) == IF v < lo THEN lo ELSE IF v > hi THEN hi ELSE v

Divides(g, c) == \E k \in 0..c : k * g = c

\* C4: ChannelShuffle(group_num).forward on c channels raises the assertion,
\* producing no output, whenever group_num does not divide c, and never
\* raises it when group_num divides c.
C4_AssertIffNotDivisible ==
    pc = "forward" =>
        /\ ~Divides(group_num, args.x.shape[2]) =>
              (ret.raised = "AssertionError" /\ "value" \notin DOMAIN ret)
        /\ Divides(group_num, args.x.shape[2]) =>
              (ret.raised = "None" /\ "value" \in DOMAIN ret)

C4_Witness ==
    /\ pc = "forward"
    /\ group_num = 2
    /\ args.x.shape[2] = 3
    /\ ret.raised = "AssertionError"

\* the initializer weight_init_ is meant to apply for a valid key
Matching(init_type) ==
    CASE init_type = "xavier" -> "xavier_normal_"
      [] init_type = "kaiming" -> "kaiming_normal_"
      [] init_type = "orthogonal" -> "orthogonal_"

AppliedOnce(before, after, fn) ==
    /\ Len(after) = Len(before) + 1
    /\ SubSeq(after, 1, Len(before)) = before
    /\ after[Len(after)].fn = fn

\* C5 as stated: KeyError and an unchanged weight for every init_type other
\* than the three keys; for each of the three keys the matching initializer
\* is applied once.
C5_Original ==
    pc = "weight_init_" =>
        /\ args.init_type \notin {"xavier", "kaiming", "orthogonal"} =>
              (ret.raised = "KeyError" /\ ret.weight = args.weight)
        /\ args.init_type \in {"xavier", "kaiming", "orthogonal"} =>
              /\ ret.raised = "None"
              /\ AppliedOnce(args.weight, ret.weight, Matching(args.init_type))

\* C5 amended: as stated, except that "kaiming" with activation None fails
\* its assertion and leaves the weight unchanged.
C5_Amended ==
    pc = "weight_init_" =>
        /\ args.init_type \notin {"xavier", "kaiming", "orthogonal"} =>
              (ret.raised = "KeyError" /\ ret.weight = args.weight)
        /\ (args.init_type = "kaiming" /\ args.activation.kind = "None") =>
              (ret.raised = "AssertionError" /\ ret.weight = args.weight)
        /\ (/\ args.init_type \in {"xavier", "kaiming", "orthogonal"}
            /\ ~(args.init_type = "kaiming" /\ args.activation.kind = "None")) =>
              /\ ret.raised = "None"
              /\ AppliedOnce(args.weight, ret.weight, Matching(args.init_type))

C5_Witness ==
    /\ pc = "weight_init_"
    /\ args.init_type = "kaiming"
    /\ args.activation.kind = "None"
    /\ Len(args.weight) = 1
    /\ ret.raised = "AssertionError"
    /\ ret.weight = args.weight

\* C6: for c divisible by g the output has the input's shape and output
\* channel j*g + i is input channel i*(c/g) + j for 0 <= i < g, 0 <= j < c/g,
\* at every batch and spatial position; every channel is used exactly once.
C6_ShufflePermutation ==
    (pc = "forward" /\ Divides(group_num, args.x.shape[2])) =>
        LET x == args.x
            b == x.shape[1]
            c == x.shape[2]
            h == x.shape[3]
            w == x.shape[4]
            g == group_num
            n == c \div g
        IN  /\ ret.raised = "None"
            /\ ret.value.shape = x.shape
            /\ \A i \in 0..(g - 1), j \in 0..(n - 1) :
                  \A bi \in 0..(b - 1), hi \in 0..(h - 1), wi \in 0..(w - 1) :
                     At(ret.value, <<bi, j * g + i, hi, wi>>) =
                         At(x, <<bi, i * n + j, hi, wi>>)
            /\ {j * g + i : i \in 0..(g - 1), j \in 0..(n - 1)} = 0..(c - 1)
            /\ {i * n + j : i \in 0..(g - 1), j \in 0..(n - 1)} = 0..(c - 1)

\* 6 channels in 2 groups, numbered data: channels 0 1 2 3 4 5 come out in
\* the order 0 3 1 4 2 5
C6_Witness ==
    /\ pc = "forward"
    /\ group_num = 2
    /\ args.x.shape = <<1, 6, 1, 1>>
    /\ args.x.data = <<0, 1, 2, 3, 4, 5>>
    /\ ret.raised = "None"
    /\ ret.value.data = <<0, 3, 1, 4, 2, 5>>

IsConv(item) == item.type \in {"Conv1d", "Conv2d", "ConvTranspose2d"}

\* C8: sequential_pack(layers) holds the layers in the given order; with a
\* convolutional layer in the list it has out_channels equal to that of the
\* first one in list order, without one it has no out_channels attribute; a
\* non-list argument fails the assertion.
C8_SequentialPack ==
    pc = "sequential_pack" =>
        LET items == args.layers.items
            convs == {k \in 1..Len(items) : IsConv(items[k])}
        IN  /\ args.layers.kind # "list" =>
                  (ret.raised = "AssertionError" /\ "value" \notin DOMAIN ret)
            /\ args.layers.kind = "list" =>
                  /\ ret.raised = "None"
                  /\ ret.value.modules = items
                  /\ convs = {} => "out_channels" \notin DOMAIN ret.value.attrs
                  /\ convs # {} =>
                        /\ "out_channels" \in DOMAIN ret.value.attrs
                        /\ \E k \in convs :
                              /\ \A m \in convs : k <= m
                              /\ ret.value.attrs["out_channels"] =
                                     items[k].out_channels

\* two convolutional layers with different out_channels: the first one's wins
C8_Witness ==
    /\ pc = "sequential_pack"
    /\ args.layers.kind = "list"
    /\ Len(args.layers.items) = 2
    /\ args.layers.items[1] = [type |-> "Conv1d", out_channels |-> 2]
    /\ args.layers.items[2] = [type |-> "Conv2d", out_channels |-> 1]
    /\ ret.raised = "None"
    /\ ret.value.attrs["out_channels"] = 2

====
